---- MODULE Spec2Model ----
(***************************************************************************)
(* Model of GmailDrafter: the two mail-merge pipelines                     *)
(*   src/main.py         GmailDraftCreator        (remote API, "api")      *)
(*   src/main_simple.py  SimpleGmailDraftCreator  (IMAP append, "imap")    *)
(* A run is main(): construct the creator (authenticate / connect_imap),   *)
(* then create_drafts_for_contacts(): load the template and the contacts,  *)
(* iterate over the contacts, print the summary, return the exit code.     *)
(*                                                                         *)
(* Python strings are sequences of one-character strings.  A value a       *)
(* csv.DictReader row can hold is a record [none, s]: None (a short row's  *)
(* missing cell) or the string s.  An operation that can raise returns     *)
(* [exc, val]: exc = "none" when it returns val normally.                  *)
(*                                                                         *)
(* Not modelled: convert_to_html and the MIME encoding (they change no     *)
(* state the run reads), and SimpleGmailDraftCreator.__del__, which runs   *)
(* after main() has fixed its return value and suppresses its own errors.  *)
(***************************************************************************)
EXTENDS Integers, Sequences, FiniteSets

VARIABLES
  variant,        \* which program runs: "api" (main.py) or "imap" (main_simple.py)
  pc,             \* position of main(): "main", "init", "batch", "loop", "return", "exit"
  configured,     \* imap: GMAIL_EMAIL / GMAIL_APP_PASSWORD were changed from the placeholders
  tokenFile,      \* api: the persisted token artifact (token.pickle)
  authPath,       \* api: the branch authenticate() took
  authError,      \* the exception the constructor raised into main(), or "none"
  service,        \* api: self.service is set
  imap,           \* imap: self.imap, 0 for None, else the number of the connection
  loggedIn,       \* imap: the session self.imap is authenticated
  loginAttempts,  \* imap: number of imap.login / IMAP4_SSL attempts made
  template,       \* the loaded template text
  contacts,       \* the loaded contact list
  idx,            \* number of contacts the for loop has consumed
  success_count,  \* the running success counter
  calls,          \* draft-creation calls made so far, in order
  batchError,     \* the exception caught by create_drafts_for_contacts, or "none"
  errAt,          \* the contact position at which batchError was raised, else 0
  summary,        \* the "Created k drafts out of n contacts" line, once printed
  exitCode        \* main()'s return value, -1 while running

vars == <<variant, pc, configured, tokenFile, authPath, authError, service, imap,
          loggedIn, loginAttempts, template, contacts, idx, success_count, calls,
          batchError, errAt, summary, exitCode>>

\* ------------------------------------------------------------------ bounds

\* Longest contact list read from the contacts file.
MaxContacts == 3

\* ------------------------------------------------------------- Python values

None == [none |-> TRUE, s |-> <<>>]

Str(s) == [none |-> FALSE, s |-> s]

\* Python truthiness of a cell value: None and '' are falsy.
Truthy(v) == ~v.none /\ v.s # <<>>

\* dict.get(k, default)
DictGet(d, k, default) == IF k \in DOMAIN d THEN d[k] ELSE default

Returns(v) == [exc |-> "none", val |-> v]

Raises(e) == [exc |-> e, val |-> <<>>]

\* Characters str.split() treats as separators.
Whitespace == {" ", "\t", "\n"}

\* str.split(): the maximal runs of non-whitespace characters, in order.
RECURSIVE SplitFrom(_, _)
SplitFrom(s, cur) ==
  IF s = <<>>
  THEN (IF cur = <<>> THEN <<>> ELSE <<cur>>)
  ELSE IF Head(s) \in Whitespace
       THEN (IF cur = <<>> THEN <<>> ELSE <<cur>>) \o SplitFrom(Tail(s), <<>>)
       ELSE SplitFrom(Tail(s), Append(cur, Head(s)))

Split(s) == SplitFrom(s, <<>>)

\* str.replace(old, new) for a non-empty old: left to right, non-overlapping,
\* the replacement is not rescanned.
RECURSIVE Replace(_, _, _)
Replace(s, old, new) ==
  IF Len(s) < Len(old)
  THEN s
  ELSE IF SubSeq(s, 1, Len(old)) = old
       THEN new \o Replace(SubSeq(s, Len(old) + 1, Len(s)), old, new)
       ELSE <<Head(s)>> \o Replace(Tail(s), old, new)

\* The placeholder literal '%name%'.
PLACEHOLDER == <<"%", "n", "a", "m", "e", "%">>

\* s.replace('%name%', v): str.replace rejects a None argument with TypeError.
ReplaceName(s, v) ==
  IF v.none THEN Raises("TypeError") ELSE Returns(Replace(s, PLACEHOLDER, v.s))

\* ----------------------------------------------------------- the two programs

\* subject_template defaults of create_drafts_for_contacts.
API_SUBJECT ==
  <<"F","a","e","l","i","n","g"," ","F","a","c","t","u","r","e"," ","p","e","t"," ",
    "c","o","m","m","i","s","s","i","o","n"," ","i","n","f","o","r","m","a","t","i","o","n">>

SIMPLE_SUBJECT ==
  <<"E","m","a","i","l"," ","f","o","r"," ","%","n","a","m","e","%">>

SubjectTemplate(v) == IF v = "api" THEN API_SUBJECT ELSE SIMPLE_SUBJECT

\* name = contact.get('name', contact.get('Name', ''))
NameOf(contact) == DictGet(contact, "name", DictGet(contact, "Name", Str(<<>>)))

\* email = contact.get('email', contact.get('Email', ''))
EmailOf(contact) == DictGet(contact, "email", DictGet(contact, "Email", Str(<<>>)))

\* GmailDraftCreator.process_template: %name% becomes the first name.
Api_process_template(tmpl, contact) ==
  LET full_name == NameOf(contact)
  IN  IF Truthy(full_name)
      THEN (IF Split(full_name.s) = <<>>
            THEN Raises("IndexError")
            ELSE ReplaceName(tmpl, Str(Split(full_name.s)[1])))
      ELSE ReplaceName(tmpl, Str(<<>>))

\* SimpleGmailDraftCreator.process_template: %name% becomes the whole name.
Simple_process_template(tmpl, contact) == ReplaceName(tmpl, NameOf(contact))

process_template(v, tmpl, contact) ==
  IF v = "api" THEN Api_process_template(tmpl, contact)
  ELSE Simple_process_template(tmpl, contact)

\* processed_subject = subject_template.replace('%name%', name)
process_subject(v, contact) == ReplaceName(SubjectTemplate(v), NameOf(contact))

\* What the remote end can answer to one draft-creation call.
\*   api:  the draft is created; the API answers an error status (HttpError);
\*         the call fails below HTTP (transport, timeout, token refresh).
\*   imap: the APPEND is accepted; the server answers NO, which imaplib hands
\*         back as a return value; select/append raises.
RemoteOutcomes(v) ==
  IF v = "api" THEN {"ok", "HttpError", "TransportError"}
  ELSE {"ok", "NO", "error"}

\* GmailDraftCreator.create_draft: True, False, or the exception escapes.
create_draft(outcome) ==
  CASE outcome = "ok" -> "True"
    [] outcome = "HttpError" -> "False"
    [] OTHER -> "raise"

\* SimpleGmailDraftCreator.create_draft_via_imap: every exception is caught.
create_draft_via_imap(outcome) ==
  IF outcome = "error" THEN "False" ELSE "True"

CreateDraftResult(v, outcome) ==
  IF v = "api" THEN create_draft(outcome) ELSE create_draft_via_imap(outcome)

\* ------------------------------------------------------ remote-API sign-in

\* The token artifact on disk: absent, unreadable by pickle.load, or credentials
\* with google.oauth2 Credentials' valid / expired / refresh_token.
NoToken == [state |-> "absent", valid |-> FALSE, expired |-> FALSE, refresh_token |-> FALSE]

CorruptToken == [state |-> "corrupt", valid |-> FALSE, expired |-> FALSE, refresh_token |-> FALSE]

Creds(v, e, r) == [state |-> "creds", valid |-> v, expired |-> e, refresh_token |-> r]

\* Credentials.valid is "has a token and is not expired": valid excludes expired.
TokenFiles ==
  {NoToken, CorruptToken} \cup
  {c \in {Creds(v, e, r) : v \in BOOLEAN, e \in BOOLEAN, r \in BOOLEAN} :
     ~(c.valid /\ c.expired)}

RefreshOutcomes == {"ok", "RefreshError"}

CredentialFiles == {"present", "absent", "invalid"}

FlowOutcomes == {"ok", "error"}

\* GmailDraftCreator.authenticate as a function of the token artifact and of what
\* the environment answers: [exc, path, token (the artifact afterwards), service].
authenticate(tf, refreshOutcome, credFile, flowOutcome) ==
  IF tf.state = "corrupt"
  THEN [exc |-> "UnpicklingError", path |-> "load_failed", token |-> tf, service |-> FALSE]
  ELSE IF tf.state = "creds" /\ tf.valid
  THEN [exc |-> "none", path |-> "as_is", token |-> tf, service |-> TRUE]
  ELSE IF tf.state = "creds" /\ tf.expired /\ tf.refresh_token
  THEN (IF refreshOutcome = "ok"
        THEN [exc |-> "none", path |-> "refreshed",
              token |-> Creds(TRUE, FALSE, TRUE), service |-> TRUE]
        ELSE [exc |-> "RefreshError", path |-> "refresh_failed",
              token |-> tf, service |-> FALSE])
  ELSE IF credFile = "absent"
  THEN [exc |-> "FileNotFoundError", path |-> "no_credentials", token |-> tf, service |-> FALSE]
  ELSE IF credFile = "invalid"
  THEN [exc |-> "ValueError", path |-> "bad_credentials", token |-> tf, service |-> FALSE]
  ELSE IF flowOutcome = "ok"
  THEN [exc |-> "none", path |-> "interactive",
        token |-> Creds(TRUE, FALSE, TRUE), service |-> TRUE]
  ELSE [exc |-> "FlowError", path |-> "flow_failed", token |-> tf, service |-> FALSE]

\* --------------------------------------------------------- mailbox sign-in

ConnectOutcomes == {"ok", "connect_failed", "login_failed"}

\* connect_imap with the `raise` at the end of its except clause left out.
connect_imap_swallow(outcome) ==
  CASE outcome = "ok" -> [raised |-> FALSE, imapSet |-> TRUE, loggedIn |-> TRUE]
    [] outcome = "connect_failed" -> [raised |-> FALSE, imapSet |-> FALSE, loggedIn |-> FALSE]
    [] OTHER -> [raised |-> FALSE, imapSet |-> TRUE, loggedIn |-> FALSE]

\* SimpleGmailDraftCreator.connect_imap: [raised, imapSet, loggedIn].  IMAP4_SSL
\* failing leaves self.imap None; login failing leaves the unauthenticated
\* connection in self.imap; both re-raise.
connect_imap(outcome) ==
  CASE outcome = "ok" -> [raised |-> FALSE, imapSet |-> TRUE, loggedIn |-> TRUE]
    [] outcome = "connect_failed" -> [raised |-> TRUE, imapSet |-> FALSE, loggedIn |-> FALSE]
    [] OTHER -> [raised |-> TRUE, imapSet |-> TRUE, loggedIn |-> FALSE]

\* ------------------------------------------------------------ input files

\* Template files: one with two placeholders, one with a placeholder followed
\* by text that overlaps it.
TemplatePool ==
  { <<"H","i"," ","%","n","a","m","e","%",","," ","%","n","a","m","e","%","!">>,
    <<"%","n","a","m","e","%","n","a","m","e","%">> }

TemplateFiles ==
  {[exists |-> FALSE, text |-> <<>>]} \cup {[exists |-> TRUE, text |-> t] : t \in TemplatePool}

JANE == <<"J","a","n","e"," ","Q","."," ","P","u","b","l","i","c">>

\* Rows csv.DictReader yields, by header.  A row shorter than the header has
\* None in the missing cells.
RowsEmailName ==
  { [email |-> Str(<<"a","@","x">>), name |-> Str(JANE)],
    [email |-> Str(<<>>),            name |-> Str(<<"B","o","b">>)],
    [email |-> Str(<<"b","@","y">>), name |-> Str(<<>>)],
    [email |-> Str(<<"c","@","z">>), name |-> None],
    [email |-> Str(<<"d","@","w">>), name |-> Str(<<" "," ">>)] }

RowsNameEmailCaps ==
  { [Name |-> Str(<<"A","l","\t","P","o">>), Email |-> Str(<<"e","@","v">>)],
    [Name |-> Str(<<"C","y">>),             Email |-> None] }

RowsNameOnly == { [name |-> Str(<<"D","i">>)] }

RowsBothEmails ==
  { [email |-> Str(<<>>), Email |-> Str(<<"f","@","u">>), name |-> Str(<<"E","d">>)],
    [email |-> Str(<<>>), Email |-> Str(<<>>),            name |-> Str(<<"F","l","o">>)] }

RowPools == {RowsEmailName, RowsNameEmailCaps, RowsNameOnly, RowsBothEmails}

\* Contact lists load_contacts can return: rows of one file share its header.
ContactLists ==
  UNION { UNION { [1..n -> pool] : n \in 0..MaxContacts } : pool \in RowPools }

ContactsFiles ==
  {[exists |-> FALSE, rows |-> <<>>]} \cup {[exists |-> TRUE, rows |-> cs] : cs \in ContactLists}

\* load_template then load_contacts inside create_drafts_for_contacts' try:
\* the first missing file raises FileNotFoundError and the other is not read.
load_files(tf, cf) ==
  IF ~tf.exists THEN [exc |-> "TemplateNotFound", template |-> <<>>, contacts |-> <<>>]
  ELSE IF ~cf.exists THEN [exc |-> "ContactsNotFound", template |-> tf.text, contacts |-> <<>>]
  ELSE [exc |-> "none", template |-> tf.text, contacts |-> cf.rows]

\* ------------------------------------------------------------ the for loop

\* The iteration with contact['email'] in place of the two-key get: a contact
\* without an email raises instead of being skipped.
iteration_skip_raises(v, tmpl, contact, i, session, outcome) ==
  LET email == EmailOf(contact)
      body == process_template(v, tmpl, contact)
      subject == process_subject(v, contact)
      res == CreateDraftResult(v, outcome)
      call == [idx |-> i, to |-> email.s, subject |-> subject.val, body |-> body.val,
               outcome |-> outcome, result |-> res, session |-> session]
  IN  IF ~Truthy(email) THEN [kind |-> "raise", exc |-> "KeyError", call |-> <<>>, ok |-> FALSE]
      ELSE IF body.exc # "none" THEN [kind |-> "raise", exc |-> body.exc, call |-> <<>>, ok |-> FALSE]
      ELSE IF subject.exc # "none" THEN [kind |-> "raise", exc |-> subject.exc, call |-> <<>>, ok |-> FALSE]
      ELSE IF res = "raise" THEN [kind |-> "call", exc |-> outcome, call |-> call, ok |-> FALSE]
      ELSE [kind |-> "call", exc |-> "none", call |-> call, ok |-> res = "True"]

\* One iteration of the for loop over contact i with the remote end answering
\* outcome: [kind, exc, call, ok].
\*   "skip"  the contact has no email: continue
\*   "raise" rendering raised before any call was made
\*   "call"  the draft-creation call was made; exc is what escaped it, ok what it returned
iteration(v, tmpl, contact, i, session, outcome) ==
  LET email == EmailOf(contact)
      body == process_template(v, tmpl, contact)
      subject == process_subject(v, contact)
      res == CreateDraftResult(v, outcome)
      call == [idx |-> i, to |-> email.s, subject |-> subject.val, body |-> body.val,
               outcome |-> outcome, result |-> res, session |-> session]
  IN  IF ~Truthy(email) THEN [kind |-> "skip", exc |-> "none", call |-> <<>>, ok |-> FALSE]
      ELSE IF body.exc # "none" THEN [kind |-> "raise", exc |-> body.exc, call |-> <<>>, ok |-> FALSE]
      ELSE IF subject.exc # "none" THEN [kind |-> "raise", exc |-> subject.exc, call |-> <<>>, ok |-> FALSE]
      ELSE IF res = "raise" THEN [kind |-> "call", exc |-> outcome, call |-> call, ok |-> FALSE]
      ELSE [kind |-> "call", exc |-> "none", call |-> call, ok |-> res = "True"]

\* The loop staying on a contact whose draft was not created.
next_contact_retry(i, ok) == IF ok THEN i + 1 ELSE i

\* The loop's position after an iteration that did not raise: the next contact.
next_contact(i, ok) == i + 1

\* The summary counting only the contacts a draft was attempted for.
summary_line_attempted(count, cs) ==
  [reported |-> TRUE, k |-> count,
   n |-> Cardinality({i \in 1..Len(cs) : Truthy(EmailOf(cs[i]))})]

\* The summary line: "Created {success_count} drafts out of {len(contacts)} contacts."
summary_line(count, cs) == [reported |-> TRUE, k |-> count, n |-> Len(cs)]

\* main() with create_drafts_for_contacts' except clause re-raising.
exit_after_batch_reraise(err) == IF err = "none" THEN 0 ELSE 1

\* main()'s value once create_drafts_for_contacts has returned: its except
\* clause swallowed whatever was raised, so main falls through to return 0.
exit_after_batch(err) == 0

\* main()'s value when the constructor raised: the except clause returns 1.
exit_after_constructor_error(err) == 1

\* ------------------------------------------------------------- the run

NoSummary == [reported |-> FALSE, k |-> 0, n |-> 0]

Init ==
  /\ variant \in {"api", "imap"}
  /\ pc = "main"
  /\ configured \in (IF variant = "imap" THEN BOOLEAN ELSE {TRUE})
  /\ tokenFile \in (IF variant = "api" THEN TokenFiles ELSE {NoToken})
  /\ authPath = "none"
  /\ authError = "none"
  /\ service = FALSE
  /\ imap = 0
  /\ loggedIn = FALSE
  /\ loginAttempts = 0
  /\ template = <<>>
  /\ contacts = <<>>
  /\ idx = 0
  /\ success_count = 0
  /\ calls = <<>>
  /\ batchError = "none"
  /\ errAt = 0
  /\ summary = NoSummary
  /\ exitCode = -1

\* main.py main(): GmailDraftCreator() runs authenticate().
ApiConstruct ==
  /\ variant = "api" /\ pc = "main"
  /\ \E ro \in RefreshOutcomes, cf \in CredentialFiles, fo \in FlowOutcomes :
       LET a == authenticate(tokenFile, ro, cf, fo)
       IN  /\ tokenFile' = a.token
           /\ authPath' = a.path
           /\ authError' = a.exc
           /\ service' = a.service
           /\ IF a.exc = "none"
              THEN pc' = "batch" /\ exitCode' = exitCode
              ELSE pc' = "exit" /\ exitCode' = exit_after_constructor_error(a.exc)
  /\ UNCHANGED <<variant, configured, imap, loggedIn, loginAttempts, template, contacts,
                 idx, success_count, calls, batchError, errAt, summary>>

\* main_simple.py main(): the placeholder-credentials check.
SimpleCheckCredentials ==
  /\ variant = "imap" /\ pc = "main"
  /\ IF configured
     THEN pc' = "init" /\ UNCHANGED <<authError, exitCode>>
     ELSE pc' = "exit" /\ authError' = "NotConfigured" /\ exitCode' = 1
  /\ UNCHANGED <<variant, configured, tokenFile, authPath, service, imap, loggedIn,
                 loginAttempts, template, contacts, idx, success_count, calls,
                 batchError, errAt, summary>>

\* main_simple.py main(): SimpleGmailDraftCreator() runs connect_imap().
SimpleConstruct ==
  /\ variant = "imap" /\ pc = "init"
  /\ \E o \in ConnectOutcomes :
       LET c == connect_imap(o)
       IN  /\ loginAttempts' = loginAttempts + 1
           /\ imap' = IF c.imapSet THEN loginAttempts + 1 ELSE 0
           /\ loggedIn' = c.loggedIn
           /\ IF c.raised
              THEN /\ pc' = "exit"
                   /\ authError' = o
                   /\ exitCode' = exit_after_constructor_error(o)
              ELSE pc' = "batch" /\ UNCHANGED <<authError, exitCode>>
  /\ UNCHANGED <<variant, configured, tokenFile, authPath, service, template, contacts,
                 idx, success_count, calls, batchError, errAt, summary>>

\* create_drafts_for_contacts: load the template and the contacts.
LoadFiles ==
  /\ pc = "batch"
  /\ \E tf \in TemplateFiles, cf \in ContactsFiles :
       LET l == load_files(tf, cf)
       IN  /\ template' = l.template
           /\ contacts' = l.contacts
           /\ batchError' = l.exc
           /\ pc' = IF l.exc = "none" THEN "loop" ELSE "return"
  /\ UNCHANGED <<variant, configured, tokenFile, authPath, authError, service, imap,
                 loggedIn, loginAttempts, idx, success_count, calls, errAt, summary,
                 exitCode>>

\* create_drafts_for_contacts: one iteration of the for loop.
ProcessContact ==
  /\ pc = "loop" /\ idx < Len(contacts)
  /\ \E o \in RemoteOutcomes(variant) :
       LET it == iteration(variant, template, contacts[idx + 1], idx + 1, imap, o)
       IN  /\ calls' = IF it.kind = "call" THEN Append(calls, it.call) ELSE calls
           /\ success_count' = IF it.ok THEN success_count + 1 ELSE success_count
           /\ IF it.exc = "none"
              THEN /\ idx' = next_contact(idx, it.ok)
                   /\ UNCHANGED <<pc, batchError, errAt>>
              ELSE /\ pc' = "return"
                   /\ batchError' = it.exc
                   /\ errAt' = idx + 1
                   /\ idx' = idx
  /\ UNCHANGED <<variant, configured, tokenFile, authPath, authError, service, imap,
                 loggedIn, loginAttempts, template, contacts, summary, exitCode>>

\* create_drafts_for_contacts: the loop is over, the summary line is printed.
Summary ==
  /\ pc = "loop" /\ idx >= Len(contacts)
  /\ summary' = summary_line(success_count, contacts)
  /\ pc' = "return"
  /\ UNCHANGED <<variant, configured, tokenFile, authPath, authError, service, imap,
                 loggedIn, loginAttempts, template, contacts, idx, success_count, calls,
                 batchError, errAt, exitCode>>

\* main(): create_drafts_for_contacts has returned.
MainReturn ==
  /\ pc = "return"
  /\ exitCode' = exit_after_batch(batchError)
  /\ pc' = "exit"
  /\ UNCHANGED <<variant, configured, tokenFile, authPath, authError, service, imap,
                 loggedIn, loginAttempts, template, contacts, idx, success_count, calls,
                 batchError, errAt, summary>>

Next ==
  \/ ApiConstruct
  \/ SimpleCheckCredentials
  \/ SimpleConstruct
  \/ LoadFiles
  \/ ProcessContact
  \/ Summary
  \/ MainReturn

Spec == Init /\ [][Next]_vars

\* ------------------------------------------------------------ properties

\* The contact has no non-empty email under either key.
NoEmail(c) ==
  \A k \in {"email", "Email"} : k \notin DOMAIN c \/ ~Truthy(c[k])

HasEmailArg(c) == ~NoEmail(c)

\* The contacts the loop is done with: consumed, or the one that raised.
Handled(i) == i \in 1..idx \/ i = errAt

CallsFor(i) == {j \in DOMAIN calls : calls[j].idx = i}

Request(call) == [to |-> call.to, subject |-> call.subject, body |-> call.body]

Calls_for_address(c) == Truthy(EmailOf(c))

\* The draft requests, in order, of a run over the list cs in which nothing fails.
Requests(cs) ==
  LET kept == SelectSeq(cs, Calls_for_address)
  IN  [j \in 1..Len(kept) |->
         [to |-> EmailOf(kept[j]).s,
          subject |-> process_subject(variant, kept[j]).val,
          body |-> process_template(variant, template, kept[j]).val]]

\* The setup is done: signed in, template and contacts read.
SetupDone ==
  /\ authError = "none"
  /\ pc \in {"loop", "return", "exit"}
  /\ batchError \notin {"TemplateNotFound", "ContactsNotFound"}

\* C1: in both pipelines a contact with no non-empty email under "email" and
\* "Email" gets no draft-creation call, does not change the success counter
\* (which counts exactly the calls that returned True), does not end the
\* batch, and the calls made are, in order, those of the same list with the
\* email-less contacts removed.
C1_SkipWithoutEmail ==
  LET without == SelectSeq(contacts, HasEmailArg)
  IN  /\ \A i \in 1..Len(contacts) : NoEmail(contacts[i]) => CallsFor(i) = {}
      /\ success_count = Cardinality({j \in DOMAIN calls : calls[j].result = "True"})
      /\ errAt # 0 => ~NoEmail(contacts[errAt])
      /\ Len(calls) <= Len(Requests(without))
      /\ \A j \in DOMAIN calls : Request(calls[j]) = Requests(without)[j]
      /\ summary.reported => Len(calls) = Len(Requests(without))

\* C1 witness: a finished run over three contacts whose second has no email,
\* with drafts created for the first and the third.
C1_Witness ==
  /\ pc = "exit" /\ summary.reported
  /\ Len(contacts) = 3 /\ NoEmail(contacts[2])
  /\ CallsFor(1) # {} /\ CallsFor(3) # {}
  /\ success_count = 2

\* C2: the summary line, once printed, gives n = the number of contacts loaded
\* and k = the number of contacts with a non-empty email whose draft-creation
\* call returned True; three contacts, the second without email, the calls for
\* the other two succeeding, give k = 2 and n = 3.
C2_SummaryCounts ==
  summary.reported =>
    /\ summary.n = Len(contacts)
    /\ summary.k = Cardinality({i \in 1..Len(contacts) :
                      /\ ~NoEmail(contacts[i])
                      /\ \E j \in CallsFor(i) : calls[j].result = "True"})
    /\ ( /\ Len(contacts) = 3 /\ NoEmail(contacts[2])
         /\ \A i \in {1, 3} : \E j \in CallsFor(i) : calls[j].result = "True" )
       => (summary.k = 2 /\ summary.n = 3)

\* C2 witness: the summary of three contacts, the second without email, one of
\* the two draft calls failed.
C2_Witness ==
  /\ summary.reported /\ Len(contacts) = 3 /\ NoEmail(contacts[2])
  /\ \E j \in DOMAIN calls : calls[j].result = "False"
  /\ summary.k = 1 /\ summary.n = 3

\* C3: every fatal setup error (no template file, no contacts file, missing or
\* invalid credentials artifact, failed login) ends main() with a non-zero
\* exit code and without a draft.
C3_SetupErrorsExitNonZero ==
  (pc = "exit" /\ (authError # "none" \/ batchError \in {"TemplateNotFound", "ContactsNotFound"}))
    => (exitCode # 0 /\ calls = <<>>)

\* C4: once the setup is done main() returns 0 whatever happens to the
\* contacts, and an empty contact list is reported as 0 drafts out of 0.
C4_ExitZeroAfterSetup ==
  /\ (pc = "exit" /\ SetupDone) => exitCode = 0
  /\ (pc \in {"return", "exit"} /\ SetupDone /\ contacts = <<>>)
       => summary = [reported |-> TRUE, k |-> 0, n |-> 0]

\* C4 witness: main() has returned 0 after a run with a skipped contact and a
\* failed draft creation.
C4_Witness ==
  /\ pc = "exit" /\ exitCode = 0 /\ SetupDone
  /\ \E i \in 1..Len(contacts) : NoEmail(contacts[i])
  /\ \E j \in DOMAIN calls : calls[j].result # "True"

\* C5: in the remote-API pipeline every failure of the draft-create call is
\* returned by create_draft as False for that contact and does not end the batch.
C5_RemoteFailureIsPerContact ==
  variant = "api" =>
    \A j \in DOMAIN calls :
      calls[j].outcome # "ok" => (calls[j].result = "False" /\ errAt # calls[j].idx)

\* C6: draft creation is called at most once per contact, in list order: the
\* calls' contact positions are strictly increasing, so no contact, failed or
\* not, is attempted again.
C6_NoRetry ==
  /\ \A j, k \in DOMAIN calls : j < k => calls[j].idx < calls[k].idx
  /\ \A j \in DOMAIN calls : calls[j].idx \in 1..Len(contacts) /\ Handled(calls[j].idx)

\* C6 witness: a failed draft creation followed by the next contact's call.
C6_Witness ==
  \E j, k \in DOMAIN calls :
    /\ calls[j].result # "True"
    /\ k = j + 1
    /\ calls[k].idx = calls[j].idx + 1

\* C7: when authenticate() has run with the token absent, invalid or not
\* refreshable (and a client-secrets file to authorize with), it has done a
\* fresh interactive authorization or a refresh, the service is usable and
\* the token on disk is a valid one.
C7_AuthenticateAlwaysSignsIn ==
  (variant = "api" /\ pc # "main"
     /\ authPath \notin {"load_failed", "no_credentials", "bad_credentials", "flow_failed"})
    => /\ authPath \in {"as_is", "refreshed", "interactive"}
       /\ service
       /\ tokenFile.state = "creds" /\ tokenFile.valid

\* C8: the mailbox pipeline logs in exactly once, in the constructor, before
\* any contact; a failed login ends the run with exit code 1, no contact
\* processed and no append; otherwise every append uses that one session.
C8_SingleLogin ==
  variant = "imap" =>
    /\ loginAttempts <= 1
    /\ (pc \in {"batch", "loop", "return"} \/ contacts # <<>> \/ calls # <<>> \/ idx > 0)
         => (loginAttempts = 1 /\ loggedIn /\ imap = 1)
    /\ (loginAttempts = 1 /\ ~loggedIn)
         => (pc = "exit" /\ exitCode = 1 /\ contacts = <<>> /\ idx = 0 /\ calls = <<>>)
    /\ \A j \in DOMAIN calls : calls[j].session = imap

\* C8 witness: two appends made over the one session.
C8_Witness ==
  /\ variant = "imap" /\ loginAttempts = 1 /\ loggedIn
  /\ Len(calls) >= 2
  /\ \A j \in DOMAIN calls : calls[j].session = 1

\* The first whitespace-delimited token of s: the longest whitespace-free
\* stretch starting at the first character that is not whitespace.
FirstToken(s) ==
  LET start == CHOOSE a \in 1..Len(s) :
                 s[a] \notin Whitespace /\ \A b \in 1..(a - 1) : s[b] \in Whitespace
      stop == CHOOSE e \in start..Len(s) :
                /\ \A b \in start..e : s[b] \notin Whitespace
                /\ (e = Len(s) \/ s[e + 1] \in Whitespace)
  IN  SubSeq(s, start, stop)

\* C9: in the remote-API pipeline every contact with a non-empty name is
\* rendered, without an exception, with %name% replaced by the first
\* whitespace-delimited token of the name.
C9_FirstNameForEveryNonEmptyName ==
  variant = "api" =>
    \A i \in 1..Len(contacts) :
      (Handled(i) /\ Truthy(EmailOf(contacts[i])) /\ Truthy(NameOf(contacts[i])))
        => \E j \in CallsFor(i) :
             calls[j].body = Replace(template, PLACEHOLDER, FirstToken(NameOf(contacts[i]).s))

\* C10: in both pipelines a contact whose name is empty or missing is rendered
\* with the empty string for %name% in body and subject, without an exception,
\* and its draft is attempted.
C10_EmptyNameRendersEmpty ==
  \A i \in 1..Len(contacts) :
    (Handled(i) /\ Truthy(EmailOf(contacts[i])) /\ ~Truthy(NameOf(contacts[i])))
      => \E j \in CallsFor(i) :
           /\ calls[j].body = Replace(template, PLACEHOLDER, <<>>)
           /\ calls[j].subject = Replace(SubjectTemplate(variant), PLACEHOLDER, <<>>)

====
